---- MODULE Spec2Model ----
(***************************************************************************)
(* State-machine model of the go-inventory-system API: the auth service    *)
(* (Register, Login, JWT issue / validate), the Auth middleware, the        *)
(* inventory service over a soft-deleting store, and the HTTP handlers      *)
(* that map service results to status codes.                                *)
(*                                                                          *)
(* In Spec, SpecAuth, SpecInv and SpecOutage one action is one HTTP request *)
(* served without interleaving.  In SpecRaceUsers and SpecRaceItems one     *)
(* action is one store call of a request, and requests of several workers   *)
(* interleave.  `resp' is the response written last.                        *)
(***************************************************************************)
EXTENDS Integers, FiniteSets, Sequences, TLC

(***************************************************************************)
(* Bounds of the exploration.                                               *)
(***************************************************************************)
\* rows the users table may receive (ids 1..MaxUsers)
MaxUsers == 2
\* rows the items table may receive (ids 1..MaxItemID)
MaxItemID == 2
\* tokens Login may hand out in one run
MaxTokens == 1
\* requests that may be in progress at the same time
MaxInFlight == 2

(***************************************************************************)
(* Program constants.                                                       *)
(***************************************************************************)
\* JWT_EXPIRY_HOURS, the default of the configuration
jwtExpiry == 24
\* time.Hour in seconds (claims carry Unix seconds)
HourSeconds == 3600
\* bcrypt.GenerateFromPassword refuses passwords of more bytes than this
MaxBcryptBytes == 72

\* the configured signing secret, and a key of somebody else
jwtSecret == "server-secret"
OtherKey == "other-key"

Duration == jwtExpiry * HourSeconds

\* instants at which the wall clock is observed
TimePoints == {0, 1, Duration - 1, Duration, Duration + 1}

(***************************************************************************)
(* Request inputs (already bound: the binding tags of the request structs    *)
(* hold for them).                                                          *)
(***************************************************************************)
Usernames == {"alice", "bob"}
Emails == {"a@example.com", "b@example.com"}
PasswordTexts == {"secret1", "hunter22", "long73"}
Salts == {"salt1"}

\* byte length of a password text
PasswordBytes(text) ==
    CASE text = "secret1" -> 7
      [] text = "hunter22" -> 8
      [] text = "long73" -> 73
      [] OTHER -> 0

\* a password value as a string: what it is made of
Plain(text) == [kind |-> "plain", salt |-> "", text |-> text]

RegisterRequests ==
    [username : Usernames, email : Emails, password : {Plain(t) : t \in PasswordTexts}]

LoginRequests ==
    [username : Usernames, password : {Plain(t) : t \in PasswordTexts}]

VARIABLES
    users,        \* rows of the users table
    nextUserID,   \* the users id sequence
    items,        \* rows of the items table (deleted rows included)
    nextItemID,   \* the items id sequence
    now,          \* wall clock, Unix seconds
    issued,       \* tokens Login has returned, each with the user it authenticated
    dbUp,         \* whether the persistence layer can be reached
    sent,         \* the Authorization header of the request served last
    resp,         \* the response to the request served last
    flight        \* the requests being served step by step, one per worker

vars == <<users, nextUserID, items, nextItemID, now, issued, dbUp, sent, resp, flight>>

(***************************************************************************)
(* Errors of the store.                                                     *)
(***************************************************************************)
ErrStore == "failed to connect to database"
ErrDuplicate == "duplicate key value violates unique constraint"
ErrPasswordTooLong == "bcrypt: password length exceeds 72 bytes"

(***************************************************************************)
(* bcrypt                                                                   *)
(***************************************************************************)
\* the bytes of a password that enter the hash
Key72(text) ==
    IF PasswordBytes(text) > MaxBcryptBytes THEN "long73[:72]" ELSE text

\* bcrypt.GenerateFromPassword: a salted one-way hash, or an error
GenerateFromPassword(password, salt) ==
    IF PasswordBytes(password.text) > MaxBcryptBytes
    THEN [err |-> ErrPasswordTooLong, hash |-> password]
    ELSE [err |-> "",
          hash |-> [kind |-> "bcrypt", salt |-> salt, text |-> Key72(password.text)]]

\* bcrypt.CompareHashAndPassword: TRUE when password hashes to hash
CompareHashAndPassword(hash, password) ==
    /\ hash.kind = "bcrypt"
    /\ hash.text = Key72(password.text)

(***************************************************************************)
(* User repository over the users table.                                    *)
(***************************************************************************)
\* NewUser with the password of the request stored as it came
NewUser_Plaintext(id, req, hash) ==
    [id |-> id, username |-> req.username, email |-> req.email, password |-> req.password]

\* models.User as stored
NewUser(id, req, hash) ==
    [id |-> id, username |-> req.username, email |-> req.email, password |-> hash]

\* models.User serialised with the Password field included
UserJSON_WithPassword(u) ==
    [id |-> u.id, username |-> u.username, email |-> u.email, password |-> u.password]

\* models.User as JSON: Password and DeletedAt carry json:"-"
UserJSON(u) == [id |-> u.id, username |-> u.username, email |-> u.email]

UserFindByUsername(us, up, username) ==
    IF ~up THEN [err |-> ErrStore, found |-> {}]
    ELSE [err |-> "", found |-> {u \in us : u.username = username}]

UserFindByEmail(us, up, email) ==
    IF ~up THEN [err |-> ErrStore, found |-> {}]
    ELSE [err |-> "", found |-> {u \in us : u.email = email}]

\* a users table without unique indexes
UserUniqueIndexes_None(us, user) == \E u \in us : u.id # u.id

\* gorm:"uniqueIndex" on User.Username and on User.Email: TRUE when a row of
\* the table forbids the insertion of user
UserUniqueIndexes(us, user) ==
    \E u \in us : u.username = user.username \/ u.email = user.email

\* INSERT: the unique indexes on username and email reject a duplicate; the
\* id comes from the sequence, which advances whether or not the row is kept
UserCreate(us, nid, up, user) ==
    IF ~up THEN [err |-> ErrStore, users |-> us, nextID |-> nid]
    ELSE IF UserUniqueIndexes(us, user)
    THEN [err |-> ErrDuplicate, users |-> us, nextID |-> nid + 1]
    ELSE [err |-> "", users |-> us \cup {[user EXCEPT !.id = nid]}, nextID |-> nid + 1]

(***************************************************************************)
(* authService.Register                                                     *)
(***************************************************************************)
RegisterFail(us, nid, err) ==
    [err |-> err, user |-> {}, users |-> us, nextID |-> nid]

\* Register without the lookup by username
Register_NoUsernameLookup(us, nid, up, req, salt) ==
    LET byEmail == UserFindByEmail(us, up, req.email)
        hashed == GenerateFromPassword(req.password, salt)
        created == UserCreate(us, nid, up, NewUser(0, req, hashed.hash))
    IN  IF byEmail.err # "" THEN RegisterFail(us, nid, byEmail.err)
        ELSE IF byEmail.found # {} THEN RegisterFail(us, nid, "email already exists")
        ELSE IF hashed.err # "" THEN RegisterFail(us, nid, hashed.err)
        ELSE IF created.err # "" THEN RegisterFail(us, created.nextID, created.err)
        ELSE [err |-> "",
              user |-> {u \in created.users : u.id = nid},
              users |-> created.users,
              nextID |-> created.nextID]

\* Register without the lookup by email
Register_NoEmailLookup(us, nid, up, req, salt) ==
    LET byName == UserFindByUsername(us, up, req.username)
        hashed == GenerateFromPassword(req.password, salt)
        created == UserCreate(us, nid, up, NewUser(0, req, hashed.hash))
    IN  IF byName.err # "" THEN RegisterFail(us, nid, byName.err)
        ELSE IF byName.found # {} THEN RegisterFail(us, nid, "username already exists")
        ELSE IF hashed.err # "" THEN RegisterFail(us, nid, hashed.err)
        ELSE IF created.err # "" THEN RegisterFail(us, created.nextID, created.err)
        ELSE [err |-> "",
              user |-> {u \in created.users : u.id = nid},
              users |-> created.users,
              nextID |-> created.nextID]

Register(us, nid, up, req, salt) ==
    LET byName == UserFindByUsername(us, up, req.username)
        byEmail == UserFindByEmail(us, up, req.email)
        hashed == GenerateFromPassword(req.password, salt)
        created == UserCreate(us, nid, up, NewUser(0, req, hashed.hash))
    IN  IF byName.err # "" THEN RegisterFail(us, nid, byName.err)
        ELSE IF byName.found # {} THEN RegisterFail(us, nid, "username already exists")
        ELSE IF byEmail.err # "" THEN RegisterFail(us, nid, byEmail.err)
        ELSE IF byEmail.found # {} THEN RegisterFail(us, nid, "email already exists")
        ELSE IF hashed.err # "" THEN RegisterFail(us, nid, hashed.err)
        ELSE IF created.err # "" THEN RegisterFail(us, created.nextID, created.err)
        ELSE [err |-> "",
              user |-> {u \in created.users : u.id = nid},
              users |-> created.users,
              nextID |-> created.nextID]

(***************************************************************************)
(* Tokens.  A well-formed token is header.claims.signature; the signature   *)
(* is a MAC of header and claims under a key, so it is determined by, and   *)
(* determines, all three.                                                   *)
(***************************************************************************)
\* a JSON number claim, a claim of another JSON type, a claim left out
Number(n) == [type |-> "number", val |-> n]
NotANumber == [type |-> "string", val |-> 0]

\* SigningMethod.Sign
Sign(alg, claims, key) == [alg |-> alg, claims |-> claims, key |-> key]
NoSignature == [alg |-> "none", claims |-> [user_id |-> NotANumber, exp |-> 0, iat |-> 0], key |-> ""]

\* jwt.NewWithClaims followed by token.SignedString
SignedString(alg, claims, key) ==
    [form |-> "jwt", alg |-> alg, claims |-> claims, sig |-> Sign(alg, claims, key)]

\* a string that is not three base64 segments of JSON
Garbage ==
    [form |-> "garbage", alg |-> "", claims |-> [user_id |-> NotANumber, exp |-> 0, iat |-> 0],
     sig |-> NoSignature]

\* generateToken with the subject written as a string
generateToken_StringSubject(userID, nowExp, nowIat) ==
    SignedString("HS256",
                 [user_id |-> NotANumber, exp |-> nowExp + Duration, iat |-> nowIat],
                 jwtSecret)

\* authService.generateToken: time.Now() is read twice, first for exp and
\* then for iat
generateToken(userID, nowExp, nowIat) ==
    SignedString("HS256",
                 [user_id |-> Number(userID), exp |-> nowExp + Duration, iat |-> nowIat],
                 jwtSecret)

\* the signing methods the jwt package registers, and those of type
\* *jwt.SigningMethodHMAC
RegisteredAlgs == {"HS256", "HS384", "HS512", "RS256", "ES256", "none"}
HMACAlgs == {"HS256", "HS384", "HS512"}

\* SigningMethodHMAC.Verify without the comparison of the MAC
Verify_Anything(tok, key) == TRUE

\* SigningMethodHMAC.Verify: the signature is the MAC of header and claims
\* under key
Verify(tok, key) == tok.sig = Sign(tok.alg, tok.claims, key)

\* the exp check with the instant of expiry still accepted
Expired_AfterExpiryOnly(exp, t) == t > exp

\* the exp check of the validator: a token is good strictly before exp
Expired(exp, t) == ~(t < exp)

\* authService.ValidateToken: jwt.Parse with the key function of the service.
\* err is the error of the library, "" when the token is valid.
ValidateToken(tok, t) ==
    IF tok.form # "jwt" THEN [err |-> "token is malformed", token |-> tok]
    ELSE IF tok.alg \notin RegisteredAlgs
    THEN [err |-> "token is unverifiable: signing method (alg) is unavailable", token |-> tok]
    ELSE IF tok.alg \notin HMACAlgs
    THEN [err |-> "token is unverifiable: unexpected signing method", token |-> tok]
    ELSE IF ~Verify(tok, jwtSecret)
    THEN [err |-> "token signature is invalid", token |-> tok]
    ELSE IF Expired(tok.claims.exp, t)
    THEN [err |-> "token has invalid claims: token is expired", token |-> tok]
    ELSE [err |-> "", token |-> tok]

\* authService.GetUserFromToken
GetUserFromToken(tok) ==
    IF tok.claims.user_id.type # "number"
    THEN [err |-> "user_id not found in token", userID |-> 0]
    ELSE [err |-> "", userID |-> tok.claims.user_id.val]

(***************************************************************************)
(* authService.Login.  nowExp and nowIat are the two readings of the clock  *)
(* taken by generateToken.                                                  *)
(***************************************************************************)
LoginFail(err) == [err |-> err, token |-> {}, user |-> {}]

\* Login that tells an unknown username from a wrong password
Login_NamesTheCause(us, up, req, nowExp, nowIat) ==
    LET byName == UserFindByUsername(us, up, req.username)
    IN  IF byName.err # "" THEN LoginFail(byName.err)
        ELSE IF byName.found = {} THEN LoginFail("user not found")
        ELSE LET user == CHOOSE u \in byName.found : TRUE
             IN  IF ~CompareHashAndPassword(user.password, req.password)
                 THEN LoginFail("invalid username or password")
                 ELSE [err |-> "",
                       token |-> {generateToken(user.id, nowExp, nowIat)},
                       user |-> {user}]

Login(us, up, req, nowExp, nowIat) ==
    LET byName == UserFindByUsername(us, up, req.username)
    IN  IF byName.err # "" THEN LoginFail(byName.err)
        ELSE IF byName.found = {} THEN LoginFail("invalid username or password")
        ELSE LET user == CHOOSE u \in byName.found : TRUE
             IN  IF ~CompareHashAndPassword(user.password, req.password)
                 THEN LoginFail("invalid username or password")
                 ELSE [err |-> "",
                       token |-> {generateToken(user.id, nowExp, nowIat)},
                       user |-> {user}]

(***************************************************************************)
(* Inventory repository over the items table.  A row with deleted = TRUE    *)
(* is a soft-deleted row: the queries skip it, the unique index on sku      *)
(* does not.                                                                *)
(***************************************************************************)
Live(its) == {i \in its : ~i.deleted}

NewItem(id, req) ==
    [id |-> id, name |-> req.name, sku |-> req.sku, description |-> req.description,
     quantity |-> req.quantity, price |-> req.price, category |-> req.category,
     deleted |-> FALSE]

\* models.Item as JSON: DeletedAt carries json:"-"
ItemJSON(i) ==
    [id |-> i.id, name |-> i.name, sku |-> i.sku, description |-> i.description,
     quantity |-> i.quantity, price |-> i.price, category |-> i.category]

\* db.Create on a table whose unique index covers the non-deleted rows only
ItemCreate_PartialIndex(its, nid, up, item) ==
    IF ~up THEN [err |-> ErrStore, items |-> its, nextID |-> nid]
    ELSE IF \E i \in its : ~i.deleted /\ i.sku = item.sku
    THEN [err |-> ErrDuplicate, items |-> its, nextID |-> nid + 1]
    ELSE [err |-> "", items |-> its \cup {[item EXCEPT !.id = nid]}, nextID |-> nid + 1]

\* INSERT into an items table without the unique index on sku
ItemCreate_NoUniqueIndex(its, nid, up, item) ==
    IF ~up THEN [err |-> ErrStore, items |-> its, nextID |-> nid]
    ELSE [err |-> "", items |-> its \cup {[item EXCEPT !.id = nid]}, nextID |-> nid + 1]

ItemCreate(its, nid, up, item) ==
    IF ~up THEN [err |-> ErrStore, items |-> its, nextID |-> nid]
    ELSE IF \E i \in its : i.sku = item.sku
    THEN [err |-> ErrDuplicate, items |-> its, nextID |-> nid + 1]
    ELSE [err |-> "", items |-> its \cup {[item EXCEPT !.id = nid]}, nextID |-> nid + 1]

\* FindAll without the soft-delete scope
ItemFindAll_Unscoped(its, up) ==
    IF ~up THEN [err |-> ErrStore, found |-> {}]
    ELSE [err |-> "", found |-> its]

ItemFindAll(its, up) ==
    IF ~up THEN [err |-> ErrStore, found |-> {}]
    ELSE [err |-> "", found |-> Live(its)]

\* FindByID without the soft-delete scope
ItemFindByID_Unscoped(its, up, id) ==
    IF ~up THEN [err |-> ErrStore, found |-> {}]
    ELSE [err |-> "", found |-> {i \in its : i.id = id}]

ItemFindByID(its, up, id) ==
    IF ~up THEN [err |-> ErrStore, found |-> {}]
    ELSE [err |-> "", found |-> {i \in Live(its) : i.id = id}]

ItemFindBySKU(its, up, sku) ==
    IF ~up THEN [err |-> ErrStore, found |-> {}]
    ELSE [err |-> "", found |-> {i \in Live(its) : i.sku = sku}]

\* db.Save: UPDATE of every column of the live row with the id of item; when
\* no row was updated, INSERT .. ON CONFLICT (id) DO UPDATE of every column
ItemUpdate(its, up, item) ==
    IF ~up THEN [err |-> ErrStore, items |-> its]
    ELSE IF \E i \in its : i.id # item.id /\ i.sku = item.sku
    THEN [err |-> ErrDuplicate, items |-> its]
    ELSE [err |-> "", items |-> {i \in its : i.id # item.id} \cup {item}]

\* db.Delete: UPDATE deleted_at of the live row with the id
ItemDelete(its, up, id) ==
    IF ~up THEN [err |-> ErrStore, items |-> its]
    ELSE [err |-> "",
          items |-> {IF i.id = id /\ ~i.deleted THEN [i EXCEPT !.deleted = TRUE] ELSE i :
                     i \in its}]

(***************************************************************************)
(* inventoryService.  An UpdateItemRequest field is a set: empty for a nil  *)
(* pointer, one element for a supplied value.                               *)
(***************************************************************************)
ItemFail(its, nid, err) == [err |-> err, item |-> {}, items |-> its, nextID |-> nid]

\* CreateItem without the lookup of the SKU
CreateItem_NoSKULookup(its, nid, up, req) ==
    LET created == ItemCreate(its, nid, up, NewItem(0, req))
    IN  IF created.err # "" THEN ItemFail(its, created.nextID, created.err)
        ELSE [err |-> "",
              item |-> {i \in created.items : i.id = nid},
              items |-> created.items,
              nextID |-> created.nextID]

CreateItem(its, nid, up, req) ==
    LET bySKU == ItemFindBySKU(its, up, req.sku)
        created == ItemCreate(its, nid, up, NewItem(0, req))
    IN  IF bySKU.err # "" THEN ItemFail(its, nid, bySKU.err)
        ELSE IF bySKU.found # {} THEN ItemFail(its, nid, "item with this SKU already exists")
        ELSE IF created.err # "" THEN ItemFail(its, created.nextID, created.err)
        ELSE [err |-> "",
              item |-> {i \in created.items : i.id = nid},
              items |-> created.items,
              nextID |-> created.nextID]

GetAllItems(its, up) == ItemFindAll(its, up)

GetItemByID(its, up, id) ==
    LET byID == ItemFindByID(its, up, id)
    IN  IF byID.err # "" THEN [err |-> byID.err, item |-> {}]
        ELSE IF byID.found = {} THEN [err |-> "item not found", item |-> {}]
        ELSE [err |-> "", item |-> byID.found]

\* the value of a supplied field, the current value of an absent one
Supplied(field, current) == IF field = {} THEN current ELSE CHOOSE v \in field : TRUE

\* UpdateItem that saves the other supplied fields before it checks the SKU
UpdateItem_WritesBeforeSKUCheck(its, up, id, req) ==
    LET byID == ItemFindByID(its, up, id)
    IN  IF byID.err # "" THEN ItemFail(its, 0, byID.err)
        ELSE IF byID.found = {} THEN ItemFail(its, 0, "item not found")
        ELSE LET item == CHOOSE i \in byID.found : TRUE
                 newSKU == req.sku # {} /\ Supplied(req.sku, item.sku) # item.sku
                 bySKU == ItemFindBySKU(its, up, Supplied(req.sku, item.sku))
                 others == [item EXCEPT
                               !.name = Supplied(req.name, item.name),
                               !.description = Supplied(req.description, item.description),
                               !.quantity = Supplied(req.quantity, item.quantity),
                               !.price = Supplied(req.price, item.price),
                               !.category = Supplied(req.category, item.category)]
                 changed == [others EXCEPT
                                !.sku = IF newSKU THEN Supplied(req.sku, item.sku) ELSE item.sku]
                 first == ItemUpdate(its, up, others)
                 saved == ItemUpdate(its, up, changed)
             IN  IF newSKU /\ bySKU.err # "" THEN ItemFail(its, 0, bySKU.err)
                 ELSE IF newSKU /\ bySKU.found # {}
                 THEN ItemFail(first.items, 0, "item with SKU already exists")
                 ELSE IF saved.err # "" THEN ItemFail(its, 0, saved.err)
                 ELSE [err |-> "", item |-> {changed}, items |-> saved.items, nextID |-> 0]

\* UpdateItem as a full replace: an absent field is stored as its zero value
UpdateItem_FullReplace(its, up, id, req) ==
    LET byID == ItemFindByID(its, up, id)
    IN  IF byID.err # "" THEN ItemFail(its, 0, byID.err)
        ELSE IF byID.found = {} THEN ItemFail(its, 0, "item not found")
        ELSE LET item == CHOOSE i \in byID.found : TRUE
                 newSKU == req.sku # {} /\ Supplied(req.sku, item.sku) # item.sku
                 bySKU == ItemFindBySKU(its, up, Supplied(req.sku, item.sku))
                 changed == [item EXCEPT
                                !.sku = IF newSKU THEN Supplied(req.sku, item.sku) ELSE item.sku,
                                !.name = Supplied(req.name, ""),
                                !.description = Supplied(req.description, ""),
                                !.quantity = Supplied(req.quantity, 0),
                                !.price = Supplied(req.price, 0),
                                !.category = Supplied(req.category, "")]
                 saved == ItemUpdate(its, up, changed)
             IN  IF newSKU /\ bySKU.err # "" THEN ItemFail(its, 0, bySKU.err)
                 ELSE IF newSKU /\ bySKU.found # {}
                 THEN ItemFail(its, 0, "item with SKU already exists")
                 ELSE IF saved.err # "" THEN ItemFail(its, 0, saved.err)
                 ELSE [err |-> "", item |-> {changed}, items |-> saved.items, nextID |-> 0]

\* fmt.Errorf("item with SKU '%s' already exists", *req.SKU) is modelled
\* without the SKU it quotes

\* UpdateItem that takes a supplied zero or empty value for an absent field,
\* as a request of plain values in place of pointers would
UpdateItem_ZeroIsAbsent(its, up, id, req) ==
    LET byID == ItemFindByID(its, up, id)
        NonZero(field, zero, current) ==
            IF field = {} \/ field = {zero} THEN current ELSE CHOOSE v \in field : TRUE
    IN  IF byID.err # "" THEN ItemFail(its, 0, byID.err)
        ELSE IF byID.found = {} THEN ItemFail(its, 0, "item not found")
        ELSE LET item == CHOOSE i \in byID.found : TRUE
                 newSKU == req.sku # {} /\ Supplied(req.sku, item.sku) # item.sku
                 bySKU == ItemFindBySKU(its, up, Supplied(req.sku, item.sku))
                 changed == [item EXCEPT
                                !.sku = IF newSKU THEN Supplied(req.sku, item.sku) ELSE item.sku,
                                !.name = Supplied(req.name, item.name),
                                !.description = NonZero(req.description, "", item.description),
                                !.quantity = NonZero(req.quantity, 0, item.quantity),
                                !.price = NonZero(req.price, 0, item.price),
                                !.category = NonZero(req.category, "", item.category)]
                 saved == ItemUpdate(its, up, changed)
             IN  IF newSKU /\ bySKU.err # "" THEN ItemFail(its, 0, bySKU.err)
                 ELSE IF newSKU /\ bySKU.found # {}
                 THEN ItemFail(its, 0, "item with SKU already exists")
                 ELSE IF saved.err # "" THEN ItemFail(its, 0, saved.err)
                 ELSE [err |-> "", item |-> {changed}, items |-> saved.items, nextID |-> 0]

\* UpdateItem that checks every supplied SKU, the item's own included
UpdateItem_ChecksOwnSKU(its, up, id, req) ==
    LET byID == ItemFindByID(its, up, id)
    IN  IF byID.err # "" THEN ItemFail(its, 0, byID.err)
        ELSE IF byID.found = {} THEN ItemFail(its, 0, "item not found")
        ELSE LET item == CHOOSE i \in byID.found : TRUE
                 newSKU == req.sku # {}
                 bySKU == ItemFindBySKU(its, up, Supplied(req.sku, item.sku))
                 changed == [item EXCEPT
                                !.sku = IF newSKU THEN Supplied(req.sku, item.sku) ELSE item.sku,
                                !.name = Supplied(req.name, item.name),
                                !.description = Supplied(req.description, item.description),
                                !.quantity = Supplied(req.quantity, item.quantity),
                                !.price = Supplied(req.price, item.price),
                                !.category = Supplied(req.category, item.category)]
                 saved == ItemUpdate(its, up, changed)
             IN  IF newSKU /\ bySKU.err # "" THEN ItemFail(its, 0, bySKU.err)
                 ELSE IF newSKU /\ bySKU.found # {}
                 THEN ItemFail(its, 0, "item with SKU already exists")
                 ELSE IF saved.err # "" THEN ItemFail(its, 0, saved.err)
                 ELSE [err |-> "", item |-> {changed}, items |-> saved.items, nextID |-> 0]

UpdateItem(its, up, id, req) ==
    LET byID == ItemFindByID(its, up, id)
    IN  IF byID.err # "" THEN ItemFail(its, 0, byID.err)
        ELSE IF byID.found = {} THEN ItemFail(its, 0, "item not found")
        ELSE LET item == CHOOSE i \in byID.found : TRUE
                 newSKU == req.sku # {} /\ Supplied(req.sku, item.sku) # item.sku
                 bySKU == ItemFindBySKU(its, up, Supplied(req.sku, item.sku))
                 changed == [item EXCEPT
                                !.sku = IF newSKU THEN Supplied(req.sku, item.sku) ELSE item.sku,
                                !.name = Supplied(req.name, item.name),
                                !.description = Supplied(req.description, item.description),
                                !.quantity = Supplied(req.quantity, item.quantity),
                                !.price = Supplied(req.price, item.price),
                                !.category = Supplied(req.category, item.category)]
                 saved == ItemUpdate(its, up, changed)
             IN  IF newSKU /\ bySKU.err # "" THEN ItemFail(its, 0, bySKU.err)
                 ELSE IF newSKU /\ bySKU.found # {}
                 THEN ItemFail(its, 0, "item with SKU already exists")
                 ELSE IF saved.err # "" THEN ItemFail(its, 0, saved.err)
                 ELSE [err |-> "", item |-> {changed}, items |-> saved.items, nextID |-> 0]

\* DeleteItem without the existence check: Delete of no row returns no error
DeleteItem_NoExistenceCheck(its, up, id) ==
    LET deleted == ItemDelete(its, up, id)
    IN  [err |-> deleted.err, items |-> deleted.items]

DeleteItem(its, up, id) ==
    LET byID == ItemFindByID(its, up, id)
        deleted == ItemDelete(its, up, id)
    IN  IF byID.err # "" THEN [err |-> byID.err, items |-> its]
        ELSE IF byID.found = {} THEN [err |-> "item not found", items |-> its]
        ELSE [err |-> deleted.err, items |-> deleted.items]

(***************************************************************************)
(* Request boundary: binding of the item requests.                          *)
(***************************************************************************)
\* a validator that accepts every number
validateNonNegative_Always(n) == n = n

\* validateNonNegative on an int or a float64
validateNonNegative(n) == n >= 0

\* CreateItemRequest: name and sku required, quantity and price non_negative
BindCreateItem(req) ==
    /\ req.name # ""
    /\ req.sku # ""
    /\ validateNonNegative(req.quantity)
    /\ validateNonNegative(req.price)

\* UpdateItemRequest: omitempty skips a nil pointer; a supplied value is checked
BindUpdateItem(req) ==
    /\ \A v \in req.name : v # ""
    /\ \A v \in req.sku : v # ""
    /\ \A v \in req.quantity : validateNonNegative(v)
    /\ \A v \in req.price : validateNonNegative(v)

\* strconv.ParseUint(idParam, 10, 32): a path parameter is an integer here,
\* a negative one standing for any text that is no unsigned number
ParseUint(idParam) ==
    IF idParam < 0 THEN [err |-> "invalid syntax", id |-> 0] ELSE [err |-> "", id |-> idParam]

(***************************************************************************)
(* Responses: the JSON envelope and the status, with whether the handler    *)
(* of the route ran.                                                        *)
(***************************************************************************)
NoData == [kind |-> "none"]

\* response.Error
Error(status, message, ran) ==
    [success |-> FALSE, status |-> status, message |-> message, handler |-> ran,
     data |-> NoData]

\* response.Success
Success(status, message, data) ==
    [success |-> TRUE, status |-> status, message |-> message, handler |-> TRUE,
     data |-> data]

(***************************************************************************)
(* middleware.Auth.  A header is the Authorization header of the request:   *)
(* whether it is non-empty, the number of fields strings.Split(header, " ") *)
(* yields, the first field and the second.                                  *)
(***************************************************************************)
\* Auth that answers with the error of the validator
Auth_LeaksReason(hdr, t) ==
    IF ~hdr.present
    THEN [next |-> FALSE, status |-> 401, message |-> "Authorization header required",
          userID |-> 0]
    ELSE IF hdr.parts # 2 \/ hdr.scheme # "Bearer"
    THEN [next |-> FALSE, status |-> 401, message |-> "Invalid authorization header format",
          userID |-> 0]
    ELSE LET valid == ValidateToken(hdr.token, t)
             user == GetUserFromToken(valid.token)
         IN  IF valid.err # ""
             THEN [next |-> FALSE, status |-> 401, message |-> valid.err, userID |-> 0]
             ELSE IF user.err # ""
             THEN [next |-> FALSE, status |-> 401, message |-> "Invalid token claims",
                   userID |-> 0]
             ELSE [next |-> TRUE, status |-> 200, message |-> "", userID |-> user.userID]

\* Auth that lets a request without an Authorization header through
Auth_HeaderOptional(hdr, t) ==
    IF ~hdr.present
    THEN [next |-> TRUE, status |-> 200, message |-> "", userID |-> 0]
    ELSE IF hdr.parts # 2 \/ hdr.scheme # "Bearer"
    THEN [next |-> FALSE, status |-> 401, message |-> "Invalid authorization header format",
          userID |-> 0]
    ELSE LET valid == ValidateToken(hdr.token, t)
             user == GetUserFromToken(valid.token)
         IN  IF valid.err # ""
             THEN [next |-> FALSE, status |-> 401, message |-> "Invalid or expired token",
                   userID |-> 0]
             ELSE IF user.err # ""
             THEN [next |-> FALSE, status |-> 401, message |-> "Invalid token claims",
                   userID |-> 0]
             ELSE [next |-> TRUE, status |-> 200, message |-> "", userID |-> user.userID]

Auth(hdr, t) ==
    IF ~hdr.present
    THEN [next |-> FALSE, status |-> 401, message |-> "Authorization header required",
          userID |-> 0]
    ELSE IF hdr.parts # 2 \/ hdr.scheme # "Bearer"
    THEN [next |-> FALSE, status |-> 401, message |-> "Invalid authorization header format",
          userID |-> 0]
    ELSE LET valid == ValidateToken(hdr.token, t)
             user == GetUserFromToken(valid.token)
         IN  IF valid.err # ""
             THEN [next |-> FALSE, status |-> 401, message |-> "Invalid or expired token",
                   userID |-> 0]
             ELSE IF user.err # ""
             THEN [next |-> FALSE, status |-> 401, message |-> "Invalid token claims",
                   userID |-> 0]
             ELSE [next |-> TRUE, status |-> 200, message |-> "", userID |-> user.userID]

(***************************************************************************)
(* What a client can send as a token: the tokens it was given, those with   *)
(* a field altered, tokens it signs itself, and text that is no token.      *)
(***************************************************************************)
IssuedTokens == {i.token : i \in issued}

\* an issued token with one part changed and the signature left as it was
Altered(tok) ==
    {[tok EXCEPT !.claims.user_id = Number(tok.claims.user_id.val + 1)],
     [tok EXCEPT !.claims.exp = tok.claims.exp + Duration],
     [tok EXCEPT !.claims.user_id = NotANumber],
     [tok EXCEPT !.alg = "none"],
     [tok EXCEPT !.alg = "none", !.sig = NoSignature],
     [tok EXCEPT !.alg = "HS384"]}

\* claims of a token made without the server: user 1, good until after the
\* last instant of the model
ForgedClaims == [user_id |-> Number(1), exp |-> 3 * Duration, iat |-> 0]

Forged ==
    {SignedString(alg, ForgedClaims, OtherKey) : alg \in {"HS256", "HS512", "RS256", "XS999"}}
    \cup {[SignedString("none", ForgedClaims, "") EXCEPT !.sig = NoSignature],
          [SignedString("HS256", ForgedClaims, "") EXCEPT !.sig = NoSignature]}

PresentedTokens ==
    IssuedTokens \cup UNION {Altered(tok) : tok \in IssuedTokens} \cup Forged \cup {Garbage}

Bearer(tok) == [present |-> TRUE, parts |-> 2, scheme |-> "Bearer", token |-> tok]

NoHeader == [present |-> FALSE, parts |-> 1, scheme |-> "", token |-> Garbage]

Headers ==
    {Bearer(tok) : tok \in PresentedTokens}
    \cup {NoHeader, [present |-> TRUE, parts |-> 1, scheme |-> "Bearer", token |-> Garbage]}
    \cup {[present |-> TRUE, parts |-> 2, scheme |-> s, token |-> tok] :
             s \in {"Basic", "bearer"}, tok \in IssuedTokens}
    \cup {[present |-> TRUE, parts |-> 3, scheme |-> "Bearer", token |-> tok] :
             tok \in IssuedTokens}

(***************************************************************************)
(* Requests in progress.  Each worker (a goroutine of the HTTP server)      *)
(* serves one request at a time: op is the service method, pc the store     *)
(* call it makes next, req the request (a set of one), local the value it   *)
(* holds in a local variable (a set: the hash, the item read), trace the    *)
(* store calls it has made.                                                 *)
(***************************************************************************)
Workers == 1..MaxInFlight

InFlight(op, pc, hdr, id, req, local, trace) ==
    [op |-> op, pc |-> pc, hdr |-> hdr, id |-> id, req |-> req, local |-> local,
     trace |-> trace]

Idle == InFlight("idle", "idle", NoHeader, 0, {}, {}, <<>>)

Busy(w) == flight[w].pc # "idle"

\* the request worker w serves, and the value it holds
Req(w) == CHOOSE r \in flight[w].req : TRUE
Local(w) == CHOOSE v \in flight[w].local : TRUE

\* the worker that takes the next request: the first one that is not busy
Accepts(w) == ~Busy(w) /\ \A v \in 1..(w - 1) : Busy(v)

(***************************************************************************)
(* Initial state: empty tables, the store reachable, nothing served yet.    *)
(***************************************************************************)
Init ==
    /\ users = {}
    /\ nextUserID = 1
    /\ items = {}
    /\ nextItemID = 1
    /\ now = 0
    /\ issued = {}
    /\ dbUp = TRUE
    /\ sent = NoHeader
    /\ resp = Error(0, "", FALSE)
    /\ flight = [w \in Workers |-> Idle]

(***************************************************************************)
(* Public routes.                                                           *)
(***************************************************************************)
\* AuthHandler.Register
AuthRegister(req) ==
    \E salt \in Salts :
        LET r == Register(users, nextUserID, dbUp, req, salt)
        IN  /\ r.nextID <= MaxUsers + 1
            /\ users' = r.users
            /\ nextUserID' = r.nextID
            /\ resp' = IF r.err # ""
                       THEN Error(400, r.err, TRUE)
                       ELSE Success(201, "User registered successfully",
                                    [kind |-> "user",
                                     user |-> {UserJSON(u) : u \in r.user}])
            /\ sent' = NoHeader
            /\ UNCHANGED <<flight, items, nextItemID, now, issued, dbUp>>

\* AuthHandler.Login; the clock advances by d between the two readings
\* generateToken takes
AuthLogin(req, d) ==
    LET r == Login(users, dbUp, req, now, now + d)
    IN  IF r.err # ""
        THEN /\ resp' = Error(401, r.err, TRUE)
             /\ sent' = NoHeader
             /\ UNCHANGED <<flight, users, nextUserID, items, nextItemID, now, issued, dbUp>>
        ELSE /\ Cardinality(issued) < MaxTokens
             /\ now' = now + d
             /\ issued' = issued \cup
                    {[token |-> tok, userID |-> u.id] : tok \in r.token, u \in r.user}
             /\ resp' = Success(200, "Login successful",
                                [kind |-> "login", token |-> r.token,
                                 user |-> {UserJSON(u) : u \in r.user}])
             /\ sent' = NoHeader
             /\ UNCHANGED <<flight, users, nextUserID, items, nextItemID, dbUp>>

\* HealthHandler.Health
Health ==
    /\ resp' = Success(200, "Service is healthy", [kind |-> "health"])
    /\ sent' = NoHeader
    /\ UNCHANGED <<flight, users, nextUserID, items, nextItemID, now, issued, dbUp>>

\* HealthHandler.Ready
Ready ==
    /\ resp' = IF dbUp
               THEN Success(200, "Service is ready", [kind |-> "ready"])
               ELSE Error(503, "Database is not ready", TRUE)
    /\ sent' = NoHeader
    /\ UNCHANGED <<flight, users, nextUserID, items, nextItemID, now, issued, dbUp>>

(***************************************************************************)
(* Inventory routes: middleware.Auth, then the handler.                     *)
(***************************************************************************)
\* c.Abort() after response.Error: the handler of the route does not run
Denied(auth) == Error(auth.status, auth.message, FALSE)

\* InventoryHandler.CreateItem
InvCreateItem(hdr, req) ==
    LET auth == Auth(hdr, now)
        r == CreateItem(items, nextItemID, dbUp, req)
    IN  IF ~auth.next
        THEN /\ resp' = Denied(auth)
             /\ sent' = hdr
             /\ UNCHANGED <<flight, users, nextUserID, items, nextItemID, now, issued, dbUp>>
        ELSE IF ~BindCreateItem(req)
        THEN /\ resp' = Error(400, "validation failed", TRUE)
             /\ sent' = hdr
             /\ UNCHANGED <<flight, users, nextUserID, items, nextItemID, now, issued, dbUp>>
        ELSE /\ r.nextID <= MaxItemID + 1
             /\ items' = r.items
             /\ nextItemID' = r.nextID
             /\ resp' = IF r.err # ""
                        THEN Error(400, r.err, TRUE)
                        ELSE Success(201, "Item created successfully",
                                     [kind |-> "item", item |-> {ItemJSON(i) : i \in r.item}])
             /\ sent' = hdr
             /\ UNCHANGED <<flight, users, nextUserID, now, issued, dbUp>>

\* GetAllItems that clears the rows marked deleted out of the table as it lists
InvGetAllItems_Purges(hdr) ==
    LET auth == Auth(hdr, now)
        r == GetAllItems(items, dbUp)
    IN  /\ resp' = IF ~auth.next THEN Denied(auth)
                   ELSE IF r.err # ""
                   THEN Error(500, "Failed to retrieve items", TRUE)
                   ELSE Success(200, "Items retrieved successfully",
                                [kind |-> "items", item |-> {ItemJSON(i) : i \in r.found}])
        /\ sent' = hdr
        /\ items' = IF auth.next /\ r.err = "" THEN Live(items) ELSE items
        /\ UNCHANGED <<flight, users, nextUserID, nextItemID, now, issued, dbUp>>

\* InventoryHandler.GetAllItems
InvGetAllItems(hdr) ==
    LET auth == Auth(hdr, now)
        r == GetAllItems(items, dbUp)
    IN  /\ resp' = IF ~auth.next THEN Denied(auth)
                   ELSE IF r.err # ""
                   THEN Error(500, "Failed to retrieve items", TRUE)
                   ELSE Success(200, "Items retrieved successfully",
                                [kind |-> "items", item |-> {ItemJSON(i) : i \in r.found}])
        /\ sent' = hdr
        /\ UNCHANGED <<flight, users, nextUserID, items, nextItemID, now, issued, dbUp>>

\* InventoryHandler.GetItemByID
InvGetItemByID(hdr, idParam) ==
    LET auth == Auth(hdr, now)
        parsed == ParseUint(idParam)
        r == GetItemByID(items, dbUp, parsed.id)
    IN  /\ resp' = IF ~auth.next THEN Denied(auth)
                   ELSE IF parsed.err # ""
                   THEN Error(400, "Invalid item ID", TRUE)
                   ELSE IF r.err # "" THEN Error(404, r.err, TRUE)
                   ELSE Success(200, "Item retrieved successfully",
                                [kind |-> "item", item |-> {ItemJSON(i) : i \in r.item}])
        /\ sent' = hdr
        /\ UNCHANGED <<flight, users, nextUserID, items, nextItemID, now, issued, dbUp>>

\* InventoryHandler.UpdateItem
InvUpdateItem(hdr, idParam, req) ==
    LET auth == Auth(hdr, now)
        parsed == ParseUint(idParam)
        r == UpdateItem(items, dbUp, parsed.id, req)
    IN  IF ~auth.next
        THEN /\ resp' = Denied(auth)
             /\ sent' = hdr
             /\ UNCHANGED <<flight, users, nextUserID, items, nextItemID, now, issued, dbUp>>
        ELSE IF parsed.err # ""
        THEN /\ resp' = Error(400, "Invalid item ID", TRUE)
             /\ sent' = hdr
             /\ UNCHANGED <<flight, users, nextUserID, items, nextItemID, now, issued, dbUp>>
        ELSE IF ~BindUpdateItem(req)
        THEN /\ resp' = Error(400, "validation failed", TRUE)
             /\ sent' = hdr
             /\ UNCHANGED <<flight, users, nextUserID, items, nextItemID, now, issued, dbUp>>
        ELSE /\ items' = r.items
             /\ resp' = IF r.err # ""
                        THEN Error(400, r.err, TRUE)
                        ELSE Success(200, "Item updated successfully",
                                     [kind |-> "item", item |-> {ItemJSON(i) : i \in r.item}])
             /\ sent' = hdr
             /\ UNCHANGED <<flight, users, nextUserID, nextItemID, now, issued, dbUp>>

\* InventoryHandler.DeleteItem
InvDeleteItem(hdr, idParam) ==
    LET auth == Auth(hdr, now)
        parsed == ParseUint(idParam)
        r == DeleteItem(items, dbUp, parsed.id)
    IN  IF ~auth.next
        THEN /\ resp' = Denied(auth)
             /\ sent' = hdr
             /\ UNCHANGED <<flight, users, nextUserID, items, nextItemID, now, issued, dbUp>>
        ELSE IF parsed.err # ""
        THEN /\ resp' = Error(400, "Invalid item ID", TRUE)
             /\ sent' = hdr
             /\ UNCHANGED <<flight, users, nextUserID, items, nextItemID, now, issued, dbUp>>
        ELSE /\ items' = r.items
             /\ resp' = IF r.err # ""
                        THEN Error(404, r.err, TRUE)
                        ELSE Success(200, "Item deleted successfully", NoData)
             /\ sent' = hdr
             /\ UNCHANGED <<flight, users, nextUserID, nextItemID, now, issued, dbUp>>

(***************************************************************************)
(* Environment: the wall clock, and the reachability of the store.          *)
(***************************************************************************)
Tick(t) ==
    /\ t > now
    /\ now' = t
    /\ UNCHANGED <<flight, users, nextUserID, items, nextItemID, issued, dbUp, sent, resp>>

StoreOutage ==
    /\ dbUp' = ~dbUp
    /\ UNCHANGED <<flight, users, nextUserID, items, nextItemID, now, issued, sent, resp>>

(***************************************************************************)
(* SpecAuth: the public routes, with every registration and login request.  *)
(***************************************************************************)
NextAuth ==
    \/ \E req \in RegisterRequests : AuthRegister(req)
    \/ \E req \in LoginRequests, d \in 0..1 : AuthLogin(req, d)
    \/ Health
    \/ Ready
    \/ \E t \in TimePoints : Tick(t)

SpecAuth == Init /\ [][NextAuth]_vars

(***************************************************************************)
(* Spec: the whole API, with one account and one item.                      *)
(***************************************************************************)
ApiRegisterRequests ==
    {r \in RegisterRequests :
        r.username = "alice" /\ r.email = "a@example.com" /\ r.password.text = "secret1"}

ApiLoginRequests ==
    {r \in LoginRequests : r.username = "alice" /\ r.password.text # "long73"}

CreateItemInputs ==
    {[name |-> "Laptop", sku |-> "LAPTOP-001", description |-> "", quantity |-> q,
      price |-> 1299, category |-> "Electronics"] : q \in {25, 0 - 1}}

NoUpdate ==
    [name |-> {}, sku |-> {}, description |-> {}, quantity |-> {}, price |-> {},
     category |-> {}]

UpdateItemInputs == {[NoUpdate EXCEPT !.quantity = {30}]}

IDParams == (0 - 1)..MaxItemID

\* instants around the expiry of a token issued at 0
ApiTimePoints == {Duration - 1, Duration, Duration + 1}

\* A request the middleware refuses is answered before its path and body are
\* read: one path and one body stand for all of them.
Read(hdr, inputs) ==
    IF Auth(hdr, now).next THEN inputs ELSE {CHOOSE x \in inputs : TRUE}

Next ==
    \/ \E req \in ApiRegisterRequests : AuthRegister(req)
    \/ \E req \in ApiLoginRequests : AuthLogin(req, 0)
    \/ Health
    \/ Ready
    \/ \E hdr \in Headers : \E req \in Read(hdr, CreateItemInputs) : InvCreateItem(hdr, req)
    \/ \E hdr \in Headers : InvGetAllItems(hdr)
    \/ \E hdr \in Headers : \E idParam \in Read(hdr, IDParams) : InvGetItemByID(hdr, idParam)
    \/ \E hdr \in Headers :
          \E idParam \in Read(hdr, IDParams), req \in Read(hdr, UpdateItemInputs) :
             InvUpdateItem(hdr, idParam, req)
    \/ \E hdr \in Headers : \E idParam \in Read(hdr, IDParams) : InvDeleteItem(hdr, idParam)
    \/ \E t \in ApiTimePoints : Tick(t)

Spec == Init /\ [][Next]_vars

(***************************************************************************)
(* SpecOutage: the whole API over a store that may become unreachable.      *)
(***************************************************************************)
NextOutage == Next \/ StoreOutage

SpecOutage == Init /\ [][NextOutage]_vars

(***************************************************************************)
(* SpecInv: the inventory routes with a range of item requests, behind one  *)
(* registered user and the token of one login; the clock stands still.      *)
(***************************************************************************)
SKUs == {"LAPTOP-001", "MOUSE-002"}

BaseItem(sku) ==
    [name |-> "Laptop", sku |-> sku, description |-> "", quantity |-> 25, price |-> 1299,
     category |-> "Electronics"]

InvCreateInputs ==
    {BaseItem(sku) : sku \in SKUs}
    \cup {[BaseItem("LAPTOP-001") EXCEPT !.quantity = 0 - 1],
          [BaseItem("MOUSE-002") EXCEPT !.price = 0 - 1]}

InvUpdateInputs ==
    {NoUpdate,
     [NoUpdate EXCEPT !.quantity = {30}],
     [NoUpdate EXCEPT !.sku = {"MOUSE-002"}],
     [NoUpdate EXCEPT !.sku = {"LAPTOP-001"}, !.quantity = {30}],
     [NoUpdate EXCEPT !.sku = {"MOUSE-002"}, !.name = {"Mouse"}],
     [NoUpdate EXCEPT !.quantity = {0 - 1}],
     [NoUpdate EXCEPT !.price = {0 - 1}]}

InvHeaders == {Bearer(tok) : tok \in IssuedTokens} \cup {NoHeader}

NextInv ==
    \/ \E req \in ApiRegisterRequests : AuthRegister(req)
    \/ \E req \in ApiLoginRequests : AuthLogin(req, 0)
    \/ \E hdr \in InvHeaders : \E req \in Read(hdr, InvCreateInputs) : InvCreateItem(hdr, req)
    \/ \E hdr \in InvHeaders : InvGetAllItems(hdr)
    \/ \E hdr \in InvHeaders : \E idParam \in Read(hdr, IDParams) : InvGetItemByID(hdr, idParam)
    \/ \E hdr \in InvHeaders :
          \E idParam \in Read(hdr, IDParams), req \in Read(hdr, InvUpdateInputs) :
             InvUpdateItem(hdr, idParam, req)
    \/ \E hdr \in InvHeaders : \E idParam \in Read(hdr, IDParams) : InvDeleteItem(hdr, idParam)

SpecInv == Init /\ [][NextInv]_vars

(***************************************************************************)
(* Requests served step by step.  One action is one store call of the       *)
(* service method, with what the handler and the method do before it and up *)
(* to the next store call; a method that returns writes the response of its *)
(* handler.  The first call of a request is made by a worker that is idle.  *)
(***************************************************************************)
\* what a lookup came back with
Looked(r) == IF r.err # "" THEN "error" ELSE IF r.found # {} THEN "found" ELSE "absent"

\* what a write or a computation came back with
Wrote(r) == IF r.err # "" THEN "error" ELSE "ok"

\* a store call and what it came back with, added to the calls of worker w
Called(w, call, outcome) ==
    Append(flight[w].trace, [call |-> call, outcome |-> outcome])

\* worker w has made its first call and goes on to the call at pc
Starts(w, op, pc, hdr, id, req, local, call, outcome) ==
    /\ flight' = [flight EXCEPT
                     ![w] = InFlight(op, pc, hdr, id, req, local,
                                     <<[call |-> call, outcome |-> outcome]>>)]
    /\ UNCHANGED <<sent, resp>>

\* the method returns from its first call, and its handler writes response
Answers(hdr, response) ==
    /\ resp' = response
    /\ sent' = hdr
    /\ UNCHANGED flight

\* worker w goes on to the call at pc, holding local
GoesOn(w, pc, local, trace) ==
    /\ flight' = [flight EXCEPT ![w] = [@ EXCEPT !.pc = pc, !.local = local, !.trace = trace]]
    /\ UNCHANGED <<sent, resp>>

\* the method of worker w returns, and its handler writes response
Returns(w, response) ==
    /\ flight' = [flight EXCEPT ![w] = Idle]
    /\ resp' = response
    /\ sent' = flight[w].hdr

(***************************************************************************)
(* authService.Register, step by step.                                      *)
(***************************************************************************)
\* Register with the password hashed before the lookup by email
RegisterNext_HashesEarly(pc) ==
    CASE pc = "FindByUsername" -> "GenerateFromPassword"
      [] pc = "GenerateFromPassword" -> "FindByEmail"
      [] pc = "FindByEmail" -> "Create"
      [] OTHER -> "idle"

\* the call Register makes after the call at pc, when that one returned no
\* error and found no user
RegisterNext(pc) ==
    CASE pc = "FindByUsername" -> "FindByEmail"
      [] pc = "FindByEmail" -> "GenerateFromPassword"
      [] pc = "GenerateFromPassword" -> "Create"
      [] OTHER -> "idle"

\* AuthHandler.Register answering for the service
RegisterResponse(err, user) ==
    IF err # ""
    THEN Error(400, err, TRUE)
    ELSE Success(201, "User registered successfully",
                 [kind |-> "user", user |-> {UserJSON(u) : u \in user}])

\* AuthHandler.Register binds the request and calls the service, which looks
\* up the username
RegisterFindByUsername(w, req) ==
    /\ Accepts(w)
    /\ LET r == UserFindByUsername(users, dbUp, req.username)
       IN  IF r.err # "" THEN Answers(NoHeader, RegisterResponse(r.err, {}))
           ELSE IF r.found # {}
           THEN Answers(NoHeader, RegisterResponse("username already exists", {}))
           ELSE Starts(w, "Register", RegisterNext("FindByUsername"), NoHeader, 0, {req}, {},
                       "FindByUsername", Looked(r))
    /\ UNCHANGED <<users, nextUserID, items, nextItemID, now, issued, dbUp>>

RegisterFindByEmail(w) ==
    /\ flight[w].op = "Register"
    /\ flight[w].pc = "FindByEmail"
    /\ LET r == UserFindByEmail(users, dbUp, Req(w).email)
       IN  IF r.err # "" THEN Returns(w, RegisterResponse(r.err, {}))
           ELSE IF r.found # {}
           THEN Returns(w, RegisterResponse("email already exists", {}))
           ELSE GoesOn(w, RegisterNext("FindByEmail"), flight[w].local,
                       Called(w, "FindByEmail", Looked(r)))
    /\ UNCHANGED <<users, nextUserID, items, nextItemID, now, issued, dbUp>>

RegisterGenerateFromPassword(w, salt) ==
    /\ flight[w].op = "Register"
    /\ flight[w].pc = "GenerateFromPassword"
    /\ LET r == GenerateFromPassword(Req(w).password, salt)
       IN  IF r.err # "" THEN Returns(w, RegisterResponse(r.err, {}))
           ELSE GoesOn(w, RegisterNext("GenerateFromPassword"), {r.hash},
                       Called(w, "GenerateFromPassword", Wrote(r)))
    /\ UNCHANGED <<users, nextUserID, items, nextItemID, now, issued, dbUp>>

RegisterCreate(w) ==
    /\ flight[w].op = "Register"
    /\ flight[w].pc = "Create"
    /\ LET r == UserCreate(users, nextUserID, dbUp, NewUser(0, Req(w), Local(w)))
       IN  /\ r.nextID <= MaxUsers + 1
           /\ users' = r.users
           /\ nextUserID' = r.nextID
           /\ Returns(w, RegisterResponse(r.err,
                                          {u \in r.users : u.id = nextUserID /\ r.err = ""}))
    /\ UNCHANGED <<items, nextItemID, now, issued, dbUp>>

(***************************************************************************)
(* SpecRaceUsers: registrations of several workers, interleaved.            *)
(***************************************************************************)
\* two requests with one username, two with one email, one whose password
\* bcrypt refuses
RaceRegisterRequests ==
    {r \in RegisterRequests :
        IF r.username = "bob" /\ r.email = "b@example.com"
        THEN r.password.text = "long73"
        ELSE r.password.text = "secret1"}

NextRaceUsers ==
    \/ \E w \in Workers, req \in RaceRegisterRequests : RegisterFindByUsername(w, req)
    \/ \E w \in Workers : RegisterFindByEmail(w)
    \/ \E w \in Workers, salt \in Salts : RegisterGenerateFromPassword(w, salt)
    \/ \E w \in Workers : RegisterCreate(w)

SpecRaceUsers == Init /\ [][NextRaceUsers]_vars

(***************************************************************************)
(* inventoryService, step by step.  A request the middleware or the binding *)
(* refuses makes no store call: InvCreateItem, InvUpdateItem and            *)
(* InvDeleteItem above serve it in one step.                                *)
(***************************************************************************)
\* req.SKU != nil && *req.SKU != item.SKU
ChangesSKU(item, req) == req.sku # {} /\ Supplied(req.sku, item.sku) # item.sku

\* the item read, with the supplied fields assigned
ApplyUpdate(item, req) ==
    [item EXCEPT
        !.sku = Supplied(req.sku, item.sku),
        !.name = Supplied(req.name, item.name),
        !.description = Supplied(req.description, item.description),
        !.quantity = Supplied(req.quantity, item.quantity),
        !.price = Supplied(req.price, item.price),
        !.category = Supplied(req.category, item.category)]

\* InventoryHandler.CreateItem: the middleware, the binding, the service
\* looking up the SKU
CreateItemFindBySKU(w, hdr, req) ==
    /\ Accepts(w)
    /\ Auth(hdr, now).next
    /\ BindCreateItem(req)
    /\ LET r == ItemFindBySKU(items, dbUp, req.sku)
       IN  IF r.err # "" THEN Answers(hdr, Error(400, r.err, TRUE))
           ELSE IF r.found # {}
           THEN Answers(hdr, Error(400, "item with this SKU already exists", TRUE))
           ELSE Starts(w, "CreateItem", "Create", hdr, 0, {req}, {}, "FindBySKU", Looked(r))
    /\ UNCHANGED <<users, nextUserID, items, nextItemID, now, issued, dbUp>>

CreateItemCreate(w) ==
    /\ flight[w].op = "CreateItem"
    /\ flight[w].pc = "Create"
    /\ LET r == ItemCreate(items, nextItemID, dbUp, NewItem(0, Req(w)))
       IN  /\ r.nextID <= MaxItemID + 1
           /\ items' = r.items
           /\ nextItemID' = r.nextID
           /\ Returns(w, IF r.err # ""
                         THEN Error(400, r.err, TRUE)
                         ELSE Success(201, "Item created successfully",
                                      [kind |-> "item",
                                       item |-> {ItemJSON(i) : i \in {j \in r.items :
                                                                        j.id = nextItemID}}]))
    /\ UNCHANGED <<users, nextUserID, now, issued, dbUp>>

\* InventoryHandler.UpdateItem: the middleware, the id, the binding, the
\* service reading the item
UpdateItemFindByID(w, hdr, idParam, req) ==
    /\ Accepts(w)
    /\ Auth(hdr, now).next
    /\ ParseUint(idParam).err = ""
    /\ BindUpdateItem(req)
    /\ LET id == ParseUint(idParam).id
           r == ItemFindByID(items, dbUp, id)
       IN  IF r.err # "" THEN Answers(hdr, Error(400, r.err, TRUE))
           ELSE IF r.found = {} THEN Answers(hdr, Error(400, "item not found", TRUE))
           ELSE Starts(w, "UpdateItem",
                       IF ChangesSKU(CHOOSE i \in r.found : TRUE, req)
                       THEN "FindBySKU" ELSE "Update",
                       hdr, id, {req}, r.found, "FindByID", Looked(r))
    /\ UNCHANGED <<users, nextUserID, items, nextItemID, now, issued, dbUp>>

UpdateItemFindBySKU(w) ==
    /\ flight[w].op = "UpdateItem"
    /\ flight[w].pc = "FindBySKU"
    /\ LET r == ItemFindBySKU(items, dbUp, Supplied(Req(w).sku, ""))
       IN  IF r.err # "" THEN Returns(w, Error(400, r.err, TRUE))
           ELSE IF r.found # {}
           THEN Returns(w, Error(400, "item with SKU already exists", TRUE))
           ELSE GoesOn(w, "Update", flight[w].local, Called(w, "FindBySKU", Looked(r)))
    /\ UNCHANGED <<users, nextUserID, items, nextItemID, now, issued, dbUp>>

UpdateItemUpdate(w) ==
    /\ flight[w].op = "UpdateItem"
    /\ flight[w].pc = "Update"
    /\ LET changed == ApplyUpdate(Local(w), Req(w))
           r == ItemUpdate(items, dbUp, changed)
       IN  /\ items' = r.items
           /\ Returns(w, IF r.err # ""
                         THEN Error(400, r.err, TRUE)
                         ELSE Success(200, "Item updated successfully",
                                      [kind |-> "item", item |-> {ItemJSON(changed)}]))
    /\ UNCHANGED <<users, nextUserID, nextItemID, now, issued, dbUp>>

\* InventoryHandler.DeleteItem: the middleware, the id, the service reading
\* the item
DeleteItemFindByID(w, hdr, idParam) ==
    /\ Accepts(w)
    /\ Auth(hdr, now).next
    /\ ParseUint(idParam).err = ""
    /\ LET id == ParseUint(idParam).id
           r == ItemFindByID(items, dbUp, id)
       IN  IF r.err # "" THEN Answers(hdr, Error(404, r.err, TRUE))
           ELSE IF r.found = {} THEN Answers(hdr, Error(404, "item not found", TRUE))
           ELSE Starts(w, "DeleteItem", "Delete", hdr, id, {}, r.found, "FindByID", Looked(r))
    /\ UNCHANGED <<users, nextUserID, items, nextItemID, now, issued, dbUp>>

DeleteItemDelete(w) ==
    /\ flight[w].op = "DeleteItem"
    /\ flight[w].pc = "Delete"
    /\ LET r == ItemDelete(items, dbUp, flight[w].id)
       IN  /\ items' = r.items
           /\ Returns(w, IF r.err # ""
                         THEN Error(404, r.err, TRUE)
                         ELSE Success(200, "Item deleted successfully", NoData))
    /\ UNCHANGED <<users, nextUserID, nextItemID, now, issued, dbUp>>

(***************************************************************************)
(* SpecRaceSKUs: creations and changes of SKU by several workers,           *)
(* interleaved, behind one registered user and the token of one login.      *)
(***************************************************************************)
(***************************************************************************)
(* SpecZero: updates that supply zero and empty values to items created     *)
(* with a description, behind one registered user and one token.            *)
(***************************************************************************)
DescribedItem(sku) == [BaseItem(sku) EXCEPT !.description = "16 GB"]

ZeroCreateInputs == {DescribedItem(sku) : sku \in SKUs}

\* each of the four fields whose zero value is valid supplied with it, alone
\* and together
ZeroUpdateInputs ==
    {[NoUpdate EXCEPT !.quantity = {0}],
     [NoUpdate EXCEPT !.price = {0}],
     [NoUpdate EXCEPT !.description = {""}],
     [NoUpdate EXCEPT !.category = {""}],
     [NoUpdate EXCEPT !.quantity = {0}, !.price = {0}, !.description = {""},
                      !.category = {""}]}

NextZero ==
    \/ \E req \in ApiRegisterRequests : AuthRegister(req)
    \/ \E req \in ApiLoginRequests : AuthLogin(req, 0)
    \/ \E hdr \in InvHeaders : \E req \in Read(hdr, ZeroCreateInputs) : InvCreateItem(hdr, req)
    \/ \E hdr \in InvHeaders :
          \E idParam \in Read(hdr, IDParams), req \in Read(hdr, ZeroUpdateInputs) :
             InvUpdateItem(hdr, idParam, req)

SpecZero == Init /\ [][NextZero]_vars

RaceHeaders == {Bearer(tok) : tok \in IssuedTokens}

RaceIDParams == 1..MaxItemID

RaceCreateInputs == {BaseItem(sku) : sku \in SKUs}

RaceSKUInputs == {[NoUpdate EXCEPT !.sku = {"KEYBOARD-003"}]}

NextRaceSKUs ==
    \/ \E req \in ApiRegisterRequests : AuthRegister(req)
    \/ \E req \in ApiLoginRequests : AuthLogin(req, 0)
    \/ \E w \in Workers, hdr \in RaceHeaders, req \in RaceCreateInputs :
          CreateItemFindBySKU(w, hdr, req)
    \/ \E w \in Workers : CreateItemCreate(w)
    \/ \E w \in Workers, hdr \in RaceHeaders, idParam \in RaceIDParams, req \in RaceSKUInputs :
          UpdateItemFindByID(w, hdr, idParam, req)
    \/ \E w \in Workers : UpdateItemFindBySKU(w)
    \/ \E w \in Workers : UpdateItemUpdate(w)

SpecRaceSKUs == Init /\ [][NextRaceSKUs]_vars

(***************************************************************************)
(* SpecRaceItems: updates of quantity and of price and deletions by several *)
(* workers, interleaved, on the item of one SKU.                            *)
(***************************************************************************)
RaceItemInputs == {BaseItem("LAPTOP-001")}

\* two requests that supply fields apart
RaceUpdateInputs ==
    {[NoUpdate EXCEPT !.quantity = {30}],
     [NoUpdate EXCEPT !.price = {999}]}

NextRaceItems ==
    \/ \E req \in ApiRegisterRequests : AuthRegister(req)
    \/ \E req \in ApiLoginRequests : AuthLogin(req, 0)
    \/ \E w \in Workers, hdr \in RaceHeaders, req \in RaceItemInputs :
          CreateItemFindBySKU(w, hdr, req)
    \/ \E w \in Workers : CreateItemCreate(w)
    \/ \E w \in Workers, hdr \in RaceHeaders, idParam \in RaceIDParams, req \in RaceUpdateInputs :
          UpdateItemFindByID(w, hdr, idParam, req)
    \/ \E w \in Workers : UpdateItemUpdate(w)
    \/ \E w \in Workers, hdr \in RaceHeaders, idParam \in RaceIDParams :
          DeleteItemFindByID(w, hdr, idParam)
    \/ \E w \in Workers : DeleteItemDelete(w)

SpecRaceItems == Init /\ [][NextRaceItems]_vars

(***************************************************************************)
(* Properties of registration.                                              *)
(***************************************************************************)
UsernameHeld(username) == \E u \in users : u.username = username
EmailHeld(email) == \E u \in users : u.email = email

\* C1: a Register request whose username a stored user holds is answered with
\* the error "username already exists" and leaves the users table as it was,
\* whatever its email and password.
C1_UsernameConflict ==
    [][\A req \in RegisterRequests :
          (AuthRegister(req) /\ UsernameHeld(req.username))
          => /\ ~resp'.success
             /\ resp'.message = "username already exists"
             /\ users' = users]_vars

\* a username conflict has been answered
C1_Witness ==
    /\ users # {}
    /\ ~resp.success
    /\ resp.message = "username already exists"

\* C2: a Register request whose username is free and whose email a stored user
\* holds is answered with the error "email already exists" and adds no user.
C2_EmailConflict ==
    [][\A req \in RegisterRequests :
          (AuthRegister(req) /\ ~UsernameHeld(req.username) /\ EmailHeld(req.email))
          => /\ ~resp'.success
             /\ resp'.message = "email already exists"
             /\ users' = users]_vars

\* an email conflict has been answered
C2_Witness ==
    /\ users # {}
    /\ ~resp.success
    /\ resp.message = "email already exists"

\* what a successful registration of req does to the users table
Registered(req) ==
    /\ resp'.success
    /\ \E u \in users' :
          /\ u \notin users
          /\ users' = users \cup {u}
          /\ u.username = req.username
          /\ u.email = req.email
          /\ u.password # req.password
          /\ resp'.data = [kind |-> "user", user |-> {UserJSON(u)}]

\* C3 as claimed: every Register request with a free username and a free email
\* succeeds, adds exactly one user with that username and email, and stores a
\* password different from the plaintext.
C3_AsClaimed ==
    [][\A req \in RegisterRequests :
          (AuthRegister(req) /\ ~UsernameHeld(req.username) /\ ~EmailHeld(req.email))
          => Registered(req)]_vars

\* C3 amended: that holds when the password has at most 72 bytes; a longer
\* password fails in hashing, and the request is answered with that error and
\* adds no user.
C3_FreshRegistration ==
    [][\A req \in RegisterRequests :
          (AuthRegister(req) /\ ~UsernameHeld(req.username) /\ ~EmailHeld(req.email))
          => IF PasswordBytes(req.password.text) <= MaxBcryptBytes
             THEN Registered(req)
             ELSE /\ ~resp'.success
                  /\ resp'.message = ErrPasswordTooLong
                  /\ users' = users]_vars

\* a registration has succeeded and the row holds a hash
C3_Witness ==
    /\ resp.success
    /\ resp.data.kind = "user"
    /\ \E u \in users : UserJSON(u) \in resp.data.user /\ u.password.kind = "bcrypt"

(***************************************************************************)
(* Properties of login and of the tokens it issues.                         *)
(***************************************************************************)
\* the stored users whose credentials req carries
Authenticated(req) ==
    {u \in users : u.username = req.username /\ CompareHashAndPassword(u.password, req.password)}

\* tok is good for user id at instant t
ValidFor(tok, id, t) ==
    LET valid == ValidateToken(tok, t)
    IN  /\ valid.err = ""
        /\ GetUserFromToken(valid.token) = [err |-> "", userID |-> id]

\* C4: a login with the correct password of a stored user returns a token whose
\* subject is the id of that user, and at every instant before its expiry the
\* token validates and yields that id.
C4_LoginToken ==
    [][\A req \in LoginRequests, d \in 0..1 :
          \A u \in Authenticated(req) :
             AuthLogin(req, d)
             => /\ resp'.success
                /\ resp'.data.kind = "login"
                /\ resp'.data.user = {UserJSON(u)}
                /\ resp'.data.token # {}
                /\ \A tok \in resp'.data.token :
                      /\ GetUserFromToken(tok) = [err |-> "", userID |-> u.id]
                      /\ \A t \in TimePoints \cup {now, now'} :
                            t < tok.claims.exp => ValidFor(tok, u.id, t)]_vars

\* a login has returned a token that is still good
C4_Witness ==
    /\ resp.success
    /\ resp.data.kind = "login"
    /\ \E i \in issued :
          /\ i.token \in resp.data.token
          /\ now < i.token.claims.exp
          /\ ValidFor(i.token, i.userID, now)

\* C5: a login with a username nobody holds and a login with a wrong password
\* for a held username get one and the same response, 401 "invalid username
\* or password", and neither is given a token.
C5_LoginFailuresAlike ==
    [][\A req \in LoginRequests, d \in 0..1 :
          (AuthLogin(req, d) /\ Authenticated(req) = {})
          => /\ resp' = Error(401, "invalid username or password", TRUE)
             /\ issued' = issued]_vars

\* a wrong password has been refused: every username is held, so the login
\* refused last named a stored user
C5_Witness ==
    /\ \A n \in Usernames : UsernameHeld(n)
    /\ resp = Error(401, "invalid username or password", TRUE)

\* C7 as claimed: every issued token has exp = iat + the configured duration.
C7_ExpiryIsIssuedAtPlusDuration ==
    \A i \in issued : i.token.claims.exp = i.token.claims.iat + Duration

(***************************************************************************)
(* Properties of token validation and of the protected routes.              *)
(***************************************************************************)
\* the step serves a request to a route of the inventory group
InventoryRequest ==
    \/ \E req \in CreateItemInputs : InvCreateItem(sent', req)
    \/ InvGetAllItems(sent')
    \/ \E idParam \in IDParams : InvGetItemByID(sent', idParam)
    \/ \E idParam \in IDParams, req \in UpdateItemInputs : InvUpdateItem(sent', idParam, req)
    \/ \E idParam \in IDParams : InvDeleteItem(sent', idParam)

\* the step serves a request to a route outside the inventory group
PublicRequest ==
    \/ \E req \in ApiRegisterRequests : AuthRegister(req)
    \/ \E req \in ApiLoginRequests : AuthLogin(req, 0)
    \/ Health
    \/ Ready

\* the answer of the middleware to a token it does not accept
InvalidToken == Error(401, "Invalid or expired token", FALSE)

\* C6: from its expiry on, the instant of expiry included, a token issued by
\* Login fails validation, and an inventory request that carries it is answered
\* 401 without its handler running and without a change to the items.
C6_ExpiredTokenRefused ==
    [][\A tok \in IssuedTokens :
          now >= tok.claims.exp
          => /\ ValidateToken(tok, now).err # ""
             /\ (sent' = Bearer(tok) /\ InventoryRequest)
                => /\ resp' = InvalidToken
                   /\ items' = items
                   /\ nextItemID' = nextItemID]_vars

\* a request carrying an issued token was refused at the instant of its expiry
C6_Witness ==
    /\ resp = InvalidToken
    /\ \E i \in issued : sent = Bearer(i.token) /\ now = i.token.claims.exp

\* C8: validation yields a user id only for a token that Login issued and that
\* is as issued: of the tokens a client can present (issued, issued with the
\* subject, the expiry or the algorithm altered, signed with another key or
\* not at all, under an algorithm that is not HMAC, no token at all), none
\* but the issued ones is accepted, at any instant.
C8_OnlyIssuedTokensValidate ==
    \A tok \in PresentedTokens :
       \A t \in TimePoints \cup {now} :
          LET valid == ValidateToken(tok, t)
          IN  (valid.err = "" /\ GetUserFromToken(valid.token).err = "")
              => tok \in IssuedTokens

\* an issued token with its expiry moved was refused while the issued one is
\* good
C8_Witness ==
    /\ resp = InvalidToken
    /\ \E i \in issued :
          /\ ValidFor(i.token, i.userID, now)
          /\ sent = Bearer([i.token EXCEPT !.claims.exp = i.token.claims.exp + Duration])

\* C9: whatever makes the validation of the token of an inventory request
\* fail (malformed, signature mismatch, algorithm not supported, expired), the
\* answer is one and the same: 401 "Invalid or expired token".
C9_ValidationFailuresAlike ==
    [][\A tok \in PresentedTokens :
          (sent' = Bearer(tok) /\ InventoryRequest /\ ValidateToken(tok, now).err # "")
          => resp' = InvalidToken]_vars

\* the errors of the validator for the tokens a client can present now
ValidationErrors == {ValidateToken(tok, now).err : tok \in PresentedTokens} \ {""}

\* the four kinds of failure can all be provoked, and an expired token has
\* just got the generic answer
C9_Witness ==
    /\ resp = InvalidToken
    /\ sent.parts = 2
    /\ ValidateToken(sent.token, now).err = "token has invalid claims: token is expired"
    /\ {"token is malformed", "token signature is invalid",
        "token is unverifiable: unexpected signing method",
        "token has invalid claims: token is expired"} \subseteq ValidationErrors

\* hdr is "Bearer <token>" with a token issued by Login and not yet expired
Authorized(hdr) ==
    \E tok \in IssuedTokens : hdr = Bearer(tok) /\ now < tok.claims.exp

\* C10: an inventory request has its handler run only when its Authorization
\* header is "Bearer <token>" with a token that validates; any other inventory
\* request is answered 401, its handler does not run and the tables are as
\* before.  Register, login and the health routes run their handlers without
\* an Authorization header.
C10_InventoryBehindAuth ==
    [][/\ InventoryRequest
          => IF Authorized(sent')
             THEN resp'.handler
             ELSE /\ resp'.status = 401
                  /\ ~resp'.success
                  /\ ~resp'.handler
                  /\ <<users, nextUserID, items, nextItemID>>'
                        = <<users, nextUserID, items, nextItemID>>
       /\ PublicRequest => (sent' = NoHeader /\ resp'.handler)]_vars

\* an item was created by an authorized request
C10_Witness ==
    /\ resp.success
    /\ resp.message = "Item created successfully"
    /\ Live(items) # {}
    /\ Authorized(sent)

(***************************************************************************)
(* Properties of the representations sent to clients.                       *)
(***************************************************************************)
\* the fields a user may have in a response
PublicUserFields == {"id", "username", "email", "created_at", "updated_at"}

\* C11: the user in the response to a successful registration and the user
\* profile in the response to a successful login have no fields but id,
\* username, email and the timestamps: neither the password nor its hash.
C11_NoPasswordInResponses ==
    (resp.success /\ resp.data.kind \in {"user", "login"})
    => /\ resp.data.user # {}
       /\ \A u \in resp.data.user : DOMAIN u \subseteq PublicUserFields

\* a login has answered with the profile of a user whose row holds a hash
C11_Witness ==
    /\ resp.success
    /\ resp.message = "Login successful"
    /\ \E u \in users :
          /\ u.password.kind = "bcrypt"
          /\ resp.data.user = {[id |-> u.id, username |-> u.username, email |-> u.email]}

(***************************************************************************)
(* Properties of the inventory service, seen through its routes.  A request *)
(* is served when its header is authorized; a create or update request is   *)
(* valid when it passes the binding of its handler.                         *)
(***************************************************************************)
\* a non-deleted item holds sku
SKUHeld(sku) == \E i \in Live(items) : i.sku = sku

\* the step serves the valid create request req
Creates(req) == InvCreateItem(sent', req) /\ Authorized(sent') /\ BindCreateItem(req)

\* C12: a valid CreateItem request with the SKU of a non-deleted item is
\* answered with the error "item with this SKU already exists"; the items
\* table and its id sequence are as before.
C12_CreateSKUConflict ==
    [][\A req \in InvCreateInputs :
          (Creates(req) /\ SKUHeld(req.sku))
          => /\ resp' = Error(400, "item with this SKU already exists", TRUE)
             /\ items' = items
             /\ nextItemID' = nextItemID]_vars

\* a create request has been refused for the SKU of a live item
C12_Witness ==
    /\ resp = Error(400, "item with this SKU already exists", TRUE)
    /\ \E i \in Live(items) : i.sku \in SKUs

\* what a successful CreateItem of req leaves: one new item with a new id and
\* the fields of req, returned to the client, read back by GetItemByID on that
\* id and found by the lookup on its SKU
Created(req) ==
    /\ resp'.success
    /\ resp'.status = 201
    /\ \E i \in Live(items') :
          /\ \A j \in items : j.id # i.id
          /\ items' = items \cup {i}
          /\ i = NewItem(i.id, req)
          /\ resp'.data = [kind |-> "item", item |-> {ItemJSON(i)}]
          /\ GetItemByID(items', dbUp', i.id) = [err |-> "", item |-> {i}]
          /\ ItemFindBySKU(items', dbUp', req.sku) = [err |-> "", found |-> {i}]

\* C13 as claimed: a valid CreateItem request with a SKU that no non-deleted
\* item holds succeeds, whatever was created, updated and deleted before; the
\* new item has the fields of the request and is read back by id and by SKU.
C13_CreateSucceedsAndIsRetrievable ==
    [][\A req \in InvCreateInputs :
          (Creates(req) /\ ~SKUHeld(req.sku)) => Created(req)]_vars

\* the fields a request can set
ItemFields == {"name", "sku", "description", "quantity", "price", "category"}

\* the step serves the valid update request req on the id idParam
Updates(idParam, req) ==
    /\ InvUpdateItem(sent', idParam, req)
    /\ Authorized(sent')
    /\ ParseUint(idParam).err = ""
    /\ BindUpdateItem(req)

\* its2 is its with the fields req supplies written to the non-deleted item
\* id, the other fields of that item and all other rows as they were
Patched(its, its2, id, req) ==
    \E i \in Live(its), j \in Live(its2) :
       /\ i.id = id
       /\ j.id = id
       /\ its2 = (its \ {i}) \cup {j}
       /\ \A f \in ItemFields :
             /\ \A v \in req[f] : j[f] = v
             /\ req[f] = {} => j[f] = i[f]

\* an update request for every subset of the six fields
PatchRequests ==
    [name : SUBSET {"Renamed"}, sku : SUBSET {"TABLET-003"}, description : SUBSET {"16 GB"},
     quantity : SUBSET {30}, price : SUBSET {999}, category : SUBSET {"Office"}]

\* C14: a successful UpdateItem writes to the stored item the fields the
\* request supplies and leaves its other fields and every other item as they
\* were: in every step that serves an update, and for the service called with
\* any of the 64 subsets of the six fields on any non-deleted item of every
\* items table a step produces.
C14_PartialUpdate ==
    [][/\ \A idParam \in IDParams, req \in InvUpdateInputs :
             (Updates(idParam, req) /\ resp'.success)
             => /\ Patched(items, items', idParam, req)
                /\ resp'.data.item = {ItemJSON(j) : j \in {k \in items' : k.id = idParam}}
       /\ items' # items
          => \A req \in PatchRequests, i \in Live(items') :
                LET r == UpdateItem(items', dbUp', i.id, req)
                IN  r.err = "" => Patched(items', r.items, i.id, req)]_vars

\* an update of the quantity alone has succeeded on one of two live items
C14_Witness ==
    /\ resp.success
    /\ resp.message = "Item updated successfully"
    /\ Cardinality(Live(items)) = 2
    /\ \E i \in Live(items) :
          /\ resp.data.item = {ItemJSON(i)}
          /\ i.quantity = 30
          /\ i.name = "Laptop"

\* a non-deleted item has the id
IDHeld(id) == \E i \in Live(items) : i.id = id

\* the answer of the API to a request for an item that is not there, as
\* GetItemByID and DeleteItem give it
NotFound == Error(404, "item not found", TRUE)

\* C15 as claimed: a valid UpdateItem request on an id that no non-deleted
\* item has is answered as not found, which no conflict is, and leaves the
\* items as they were.
C15_UpdateMissingIsNotFound ==
    [][\A idParam \in IDParams, req \in InvUpdateInputs :
          (Updates(idParam, req) /\ ~IDHeld(idParam))
          => /\ resp' = NotFound
             /\ items' = items]_vars

\* req supplies a SKU that is not the SKU of the non-deleted item id and is
\* the SKU of another non-deleted item
TakesHeldSKU(id, req) ==
    \E i \in Live(items) :
       /\ i.id = id
       /\ \E v \in req.sku :
             /\ v # i.sku
             /\ \E j \in Live(items) : j.id # id /\ j.sku = v

\* C16: a valid UpdateItem request that changes the SKU of an item to the SKU
\* of another non-deleted item is answered with the error "item with SKU
\* ... already exists", and no field the request supplies is written: the
\* items are as they were.
C16_UpdateSKUConflict ==
    [][\A idParam \in IDParams, req \in InvUpdateInputs :
          (Updates(idParam, req) /\ TakesHeldSKU(idParam, req))
          => /\ resp' = Error(400, "item with SKU already exists", TRUE)
             /\ items' = items]_vars

\* an update that supplied a held SKU and a new quantity has been refused,
\* and both items still have the quantity they were created with
C16_Witness ==
    /\ resp = Error(400, "item with SKU already exists", TRUE)
    /\ Cardinality(Live(items)) = 2
    /\ \A i \in Live(items) : i.quantity = 25

\* the step serves a delete request on the id idParam
Deletes(idParam) ==
    InvDeleteItem(sent', idParam) /\ Authorized(sent') /\ ParseUint(idParam).err = ""

\* the step serves a get request on the id idParam
Gets(idParam) ==
    InvGetItemByID(sent', idParam) /\ Authorized(sent') /\ ParseUint(idParam).err = ""

\* the step serves a list request
Lists == InvGetAllItems(sent') /\ Authorized(sent')

\* the ids of the rows marked deleted
DeletedIDs(its) == {i.id : i \in {k \in its : k.deleted}}

\* the reads of the service do not show the id
Gone(id, its, up) ==
    /\ GetItemByID(its, up, id) = [err |-> "item not found", item |-> {}]
    /\ \A j \in GetAllItems(its, up).found : j.id # id

\* C17: when DeleteItem has succeeded on an id, GetItemByID on it is answered
\* not found and GetAllItems does not list it, in the state the delete leaves
\* and in every state after it, whatever is created, updated or deleted
\* later (requests served one at a time).
C17_DeletedStaysGone ==
    [][/\ \A idParam \in IDParams :
             (Deletes(idParam) /\ resp'.success)
             => idParam \in DeletedIDs(items') /\ Gone(idParam, items', dbUp')
       /\ \A id \in DeletedIDs(items) :
             /\ id \in DeletedIDs(items')
             /\ Gone(id, items', dbUp')
             /\ Gets(id) => resp' = NotFound
             /\ Lists => /\ resp'.success
                         /\ \A j \in resp'.data.item : j.id # id]_vars

\* an item was deleted, and an item has been created after that
C17_Witness ==
    /\ DeletedIDs(items) # {}
    /\ resp.success
    /\ resp.message = "Item created successfully"
    /\ \E i \in Live(items) : \A id \in DeletedIDs(items) : i.id > id

\* C18: GetItemByID and DeleteItem on an id that no non-deleted item has,
\* never created or deleted before, are answered 404 "item not found" and
\* leave the items table as it was; so is a second DeleteItem on an id.
C18_MissingIsNotFound ==
    [][\A idParam \in IDParams :
          ((Gets(idParam) \/ Deletes(idParam)) /\ ~IDHeld(idParam))
          => /\ resp' = NotFound
             /\ items' = items
             /\ nextItemID' = nextItemID]_vars

\* a request on the id of a deleted item has been answered not found, and
\* so can one on an id never given out
C18_Witness ==
    /\ resp = NotFound
    /\ DeletedIDs(items) # {}
    /\ Live(items) = {}
    /\ \E id \in 1..MaxItemID : id >= nextItemID

\* the items a client has been told exist: the non-deleted rows, as JSON
Shown(its) ==
    {[id |-> i.id, name |-> i.name, sku |-> i.sku, description |-> i.description,
      quantity |-> i.quantity, price |-> i.price, category |-> i.category] :
        i \in {k \in its : ~k.deleted}}

\* the step serves a create request that succeeds
CreatedStep == \E req \in InvCreateInputs : Creates(req) /\ resp'.success

\* the step serves an update or a delete request that succeeds
ChangedStep ==
    \/ \E idParam \in IDParams, req \in InvUpdateInputs : Updates(idParam, req) /\ resp'.success
    \/ \E idParam \in IDParams : Deletes(idParam) /\ resp'.success

\* C19: GetAllItems returns exactly the items created and not deleted, with
\* their current fields.  Step by step: a successful create adds the item it
\* returns, under a new id; a successful update replaces the item of its id by
\* the one it returns; a successful delete removes the item of its id; no
\* other step changes the set; and a list request is answered with the set.
C19_ListIsExact ==
    [][/\ CreatedStep
          => /\ Shown(items') = Shown(items) \cup resp'.data.item
             /\ \A j \in resp'.data.item : \A i \in items : i.id # j.id
       /\ \A idParam \in IDParams, req \in InvUpdateInputs :
             (Updates(idParam, req) /\ resp'.success)
             => Shown(items') = {j \in Shown(items) : j.id # idParam} \cup resp'.data.item
       /\ \A idParam \in IDParams :
             (Deletes(idParam) /\ resp'.success)
             => Shown(items') = {j \in Shown(items) : j.id # idParam}
       /\ ~(CreatedStep \/ ChangedStep) => Shown(items') = Shown(items)
       /\ Lists => /\ resp'.success
                   /\ resp'.data = [kind |-> "items", item |-> Shown(items)]]_vars

\* a list request has been answered with an updated item while another item
\* is deleted
C19_Witness ==
    /\ resp.success
    /\ resp.message = "Items retrieved successfully"
    /\ DeletedIDs(items) # {}
    /\ \E j \in resp.data.item : j.quantity = 30

\* req asks for a negative quantity or price; an update request supplies its
\* fields as sets
AsksNegative(quantities, prices) == \E v \in quantities \cup prices : v < 0

\* C20: every stored item has quantity >= 0 and price >= 0, and a create or
\* update request with a negative quantity or price is answered 400 and
\* changes neither an item nor the id sequence.
C20_NeverNegative ==
    [][/\ \A i \in items' : i.quantity >= 0 /\ i.price >= 0
       /\ \A req \in InvCreateInputs :
             (InvCreateItem(sent', req) /\ Authorized(sent')
                 /\ AsksNegative({req.quantity}, {req.price}))
             => /\ resp'.status = 400
                /\ ~resp'.success
                /\ items' = items
                /\ nextItemID' = nextItemID
       /\ \A idParam \in IDParams, req \in InvUpdateInputs :
             (InvUpdateItem(sent', idParam, req) /\ Authorized(sent')
                 /\ AsksNegative(req.quantity, req.price))
             => /\ resp'.status = 400
                /\ ~resp'.success
                /\ items' = items]_vars

\* a request has failed validation while an item is stored
C20_Witness ==
    /\ resp = Error(400, "validation failed", TRUE)
    /\ Live(items) # {}
    /\ \A i \in items : i.quantity >= 0 /\ i.price >= 0

(***************************************************************************)
(* Properties of requests that interleave.                                  *)
(***************************************************************************)
\* C21: no two non-deleted items have the same SKU, whatever the interleaving
\* of the store calls of concurrent CreateItem and UpdateItem requests, two
\* requests that both pass the SKU lookup before either writes included.
C21_LiveSKUsUnique ==
    \A i, j \in Live(items) : i.sku = j.sku => i = j

\* a request has passed the SKU lookup and has been refused by the store at
\* its write, the SKU being held by a non-deleted item by then
C21_Witness ==
    /\ ~resp.success
    /\ resp.message = ErrDuplicate
    /\ Live(items) = items
    /\ items # {}

\* worker w, serving op, has made the call at pc in this step
Took(w, op, pc) == flight[w].op = op /\ flight[w].pc = pc /\ flight'[w].pc # pc

\* C22: no two users have the same username and no two have the same email,
\* whatever the interleaving of registrations; a registration that reaches
\* persistence after both lookups found nothing, while a user with its username
\* or its email has been stored meanwhile, fails there and adds no user.
C22_RegistrationRace ==
    [][/\ \A u, v \in users' : (u.username = v.username \/ u.email = v.email) => u = v
       /\ \A w \in Workers :
             (/\ Took(w, "Register", "Create")
              /\ UsernameHeld(Req(w).username) \/ EmailHeld(Req(w).email))
             => /\ users' = users
                /\ ~resp'.success
                /\ resp'.message = ErrDuplicate]_vars

\* a registration has passed both lookups and has been refused by the store,
\* and the user that took its place is stored
C22_Witness ==
    /\ ~resp.success
    /\ resp.message = ErrDuplicate
    /\ Cardinality(users) = 1

\* the calls worker w has made when its registration stands before the call
\* at pc: the calls before pc in the order of Register, the lookups having
\* found nothing and the hashing having succeeded
RegisterTrace(pc) ==
    CASE pc = "FindByEmail" -> <<[call |-> "FindByUsername", outcome |-> "absent"]>>
      [] pc = "GenerateFromPassword" ->
            <<[call |-> "FindByUsername", outcome |-> "absent"],
              [call |-> "FindByEmail", outcome |-> "absent"]>>
      [] pc = "Create" ->
            <<[call |-> "FindByUsername", outcome |-> "absent"],
              [call |-> "FindByEmail", outcome |-> "absent"],
              [call |-> "GenerateFromPassword", outcome |-> "ok"]>>
      [] OTHER -> <<>>

RegisterInOrder ==
    \A w \in Workers : flight[w].op = "Register" => flight[w].trace = RegisterTrace(flight[w].pc)

\* C24: Register looks up the username, then the email, then hashes the
\* password, then persists: a registration stands before hashing only after
\* both lookups found nothing and before persistence only after the hashing
\* succeeded; a lookup that finds a user ends the request with its conflict
\* and without a write, the username conflict when the username is held
\* whether or not the email is held too; only the persistence step changes
\* the users table.
C24_RegisterOrder ==
    [][/\ RegisterInOrder'
       /\ \A w \in Workers :
             /\ \A req \in RaceRegisterRequests :
                   (RegisterFindByUsername(w, req) /\ UsernameHeld(req.username))
                   => /\ flight' = flight
                      /\ resp' = Error(400, "username already exists", TRUE)
             /\ (Took(w, "Register", "FindByEmail") /\ EmailHeld(Req(w).email))
                => /\ flight'[w].pc = "idle"
                   /\ resp' = Error(400, "email already exists", TRUE)
       /\ users' # users => \E w \in Workers : Took(w, "Register", "Create")]_vars

\* a registration stands before persistence, after its three other calls,
\* while a user is stored
C24_Witness ==
    /\ users # {}
    /\ \E w \in Workers :
          /\ flight[w].op = "Register"
          /\ flight[w].pc = "Create"
          /\ Len(flight[w].trace) = 3

\* the stored row of an id
Row(its, id) == CHOOSE i \in its : i.id = id

\* two update requests that supply no field in common
Apart(req1, req2) == \A f \in ItemFields : req1[f] = {} \/ req2[f] = {}

\* C28: when two UpdateItem requests on one item supply fields apart and run
\* concurrently, the stored item holds both changes once both have completed.
\* At the write that completes an update of worker w: the fields w supplies
\* are stored, and for every request apart from the one of w, a value it
\* supplies that the store holds, and that the item w read did not have yet,
\* is still stored after the write.
C28_ConcurrentUpdatesBothHold ==
    [][\A w \in Workers :
          (Took(w, "UpdateItem", "Update") /\ resp'.success)
          => /\ \A f \in ItemFields : \A x \in Req(w)[f] : Row(items', flight[w].id)[f] = x
             /\ \A other \in RaceUpdateInputs :
                   Apart(other, Req(w))
                   => \A f \in ItemFields :
                         (/\ Row(items, flight[w].id)[f] \in other[f]
                          /\ Local(w)[f] \notin other[f])
                         => Row(items', flight[w].id)[f] \in other[f]]_vars

\* C29: once DeleteItem has succeeded on an id, the item is not visible
\* again, whatever the interleaving: in the state after any step, GetItemByID
\* on an id whose row was marked deleted before the step finds nothing and
\* GetAllItems does not list it.
C29_DeletedNeverReappears ==
    [][\A id \in DeletedIDs(items) : Gone(id, items', dbUp')]_vars

(***************************************************************************)
(* Properties of requests served while the store is unreachable             *)
(***************************************************************************)
\* the step serves a request whose handler ran and called the store
ReachesStore ==
    \/ \E req \in ApiRegisterRequests : AuthRegister(req)
    \/ \E req \in ApiLoginRequests : AuthLogin(req, 0)
    \/ \E req \in CreateItemInputs : Creates(req)
    \/ Lists
    \/ \E idParam \in IDParams : Gets(idParam)
    \/ \E idParam \in IDParams, req \in UpdateItemInputs : Updates(idParam, req)
    \/ \E idParam \in IDParams : Deletes(idParam)

\* the statuses the API answers a conflict or a validation error, bad
\* credentials or a refused token, and an absent record with
CallerErrorStatuses == {400, 401, 404}

\* C23: a request whose store call failed is answered with an internal error:
\* a failure whose status is none of those of a conflict, of bad credentials
\* or of an absent record.
C23_StoreFailureIsInternal ==
    [][(~dbUp /\ ReachesStore)
          => ~resp'.success /\ resp'.status \notin CallerErrorStatuses]_vars

(***************************************************************************)
(* Properties of updates that name the item's own SKU                       *)
(***************************************************************************)
\* the request supplies the SKU the non-deleted item with the id has
OwnSKU(its, id, req) == \E i \in Live(its) : i.id = id /\ req.sku = {i.sku}

\* C25: an update that supplies the SKU the item already has is served
\* without the SKU lookup (the service goes from FindByID to Update) and is not
\* refused as a duplicate: it succeeds, the other fields it supplies are
\* written and the SKU and every other item are as before.
C25_OwnSKUNoConflict ==
    [][\A idParam \in IDParams, req \in InvUpdateInputs :
          (Updates(idParam, req) /\ OwnSKU(items, idParam, req))
          => /\ \A i \in Live(items) : i.id = idParam => ~ChangesSKU(i, req)
             /\ resp'.success
             /\ resp'.status = 200
             /\ Patched(items, items', idParam, req)
             /\ items' = UpdateItem(items, dbUp, idParam, [req EXCEPT !.sku = {}]).items]_vars

\* the mouse created beside the laptop was renamed by the update that
\* supplies its own SKU
C25_Witness ==
    /\ resp.success
    /\ resp.message = "Item updated successfully"
    /\ \E i, j \in Live(items) :
          /\ i.id = 1 /\ i.sku = "LAPTOP-001" /\ i.quantity = 25
          /\ j.id = 2 /\ j.sku = "MOUSE-002" /\ j.name = "Mouse"
          /\ resp.data.item = {ItemJSON(j)}

(***************************************************************************)
(* Properties of updates that supply zero and empty values                  *)
(***************************************************************************)
\* the zero value of the fields a request may supply it for
ZeroOf == [description |-> "", quantity |-> 0, price |-> 0, category |-> ""]

\* C26: an update tells a field supplied with its zero value (quantity 0,
\* price 0, an empty description, an empty category) from an absent one: the
\* request is accepted, every supplied field of the stored item becomes zero
\* or empty, and every absent field keeps the value it had.
C26_ZeroIsNotAbsent ==
    [][\A idParam \in IDParams, req \in ZeroUpdateInputs :
          ((\E i \in Live(items) : i.id = idParam) /\ Updates(idParam, req))
          => /\ resp'.success
             /\ \E i \in Live(items), j \in Live(items') :
                   /\ i.id = idParam
                   /\ j.id = idParam
                   /\ items' = (items \ {i}) \cup {j}
                   /\ resp'.data.item = {ItemJSON(j)}
                   /\ j.name = i.name
                   /\ j.sku = i.sku
                   /\ \A f \in DOMAIN ZeroOf :
                         j[f] = IF req[f] = {} THEN i[f] ELSE ZeroOf[f]]_vars

\* an update has set the quantity and the description of an item to 0 and ""
\* and left its price and category as created
C26_Witness ==
    /\ resp.success
    /\ resp.message = "Item updated successfully"
    /\ \E i \in Live(items) :
          /\ resp.data.item = {ItemJSON(i)}
          /\ i.quantity = 0
          /\ i.description = ""
          /\ i.price = 1299
          /\ i.category = "Electronics"

(***************************************************************************)
(* Properties of the SKU of a deleted item                                  *)
(***************************************************************************)
\* no non-deleted item has the SKU, a deleted row has it, and the lookup of
\* the service finds nothing
Reserved(sku) ==
    /\ ~SKUHeld(sku)
    /\ \E d \in items : d.deleted /\ d.sku = sku
    /\ ItemFindBySKU(items, dbUp, sku) = [err |-> "", found |-> {}]

\* C27: the SKU of a deleted item stays reserved.  A valid CreateItem with it,
\* and a valid UpdateItem that changes the SKU of a non-deleted item to it,
\* pass the lookup of the service, are refused by the unique index of the
\* store and answered with its error; the rows of the table are as before.
C27_DeletedSKUReserved ==
    [][/\ \A req \in InvCreateInputs :
             (Creates(req) /\ Reserved(req.sku))
             => /\ resp' = Error(400, ErrDuplicate, TRUE)
                /\ items' = items
       /\ \A idParam \in IDParams, req \in InvUpdateInputs :
             (/\ Updates(idParam, req)
              /\ \E i \in Live(items) : i.id = idParam /\ ChangesSKU(i, req)
              /\ \A v \in req.sku : Reserved(v))
             => /\ resp' = Error(400, ErrDuplicate, TRUE)
                /\ items' = items]_vars

\* the store has refused to give the laptop the SKU of the deleted mouse
C27_Witness ==
    /\ resp = Error(400, ErrDuplicate, TRUE)
    /\ \E d, i \in items :
          /\ d.deleted /\ d.sku = "MOUSE-002"
          /\ ~i.deleted /\ i.sku = "LAPTOP-001"
    /\ nextItemID = MaxItemID + 1

(***************************************************************************)
(* Properties of the operations that only read                              *)
(***************************************************************************)
\* the tables and their id sequences
Store == <<users, nextUserID, items, nextItemID>>

\* the step serves a login, a list or a get request
ReadOnlyRequest ==
    \/ \E req \in ApiLoginRequests : AuthLogin(req, 0)
    \/ InvGetAllItems(sent')
    \/ \E idParam \in IDParams : InvGetItemByID(sent', idParam)

\* C30: Login, GetAllItems, GetItemByID and the validation of a token leave
\* the users, the items and the id sequences as they were, whether they
\* succeed or fail; the verdict of the middleware on an inventory request
\* depends on the header and the clock alone, the same with the store
\* reachable or not.
C30_ReadsLeaveStore ==
    [][/\ ReadOnlyRequest => Store' = Store
       /\ InventoryRequest
          => /\ resp'.handler = Authorized(sent')
             /\ ~Authorized(sent') => Store' = Store]_vars

\* with the store unreachable a list request has passed the middleware and
\* failed in the handler, and an item and its owner are still stored
C30_Witness ==
    /\ ~dbUp
    /\ sent # NoHeader
    /\ resp = Error(500, "Failed to retrieve items", TRUE)
    /\ items # {}
    /\ users # {}

====
